---------------------------- MODULE Spec2Model ----------------------------
(***************************************************************************)
(* A model of the repl-block line editor (src/src/repl.rs) together with   *)
(* the Cmd / Line buffer (src/src/cmd.rs) and the History                  *)
(* (src/src/history.rs).                                                   *)
(*                                                                         *)
(* A grapheme is a one-character string, a Line is a record                *)
(* [content, kind], a Cmd is the sequence of its Lines.  Coordinates,      *)
(* history indices and match indices are 0-based as in the source;         *)
(* TLA+ sequences are 1-based, hence the "+ 1" at every index.             *)
(*                                                                         *)
(* One step of Spec is one iteration of Repl::start: a key event is        *)
(* dispatched to its handler and, when the handler returns Ok, the input   *)
(* area is repainted by render_ui.                                         *)
(***************************************************************************)
EXTENDS Integers, Sequences, FiniteSets, TLC

VARIABLES
    state,            \* Repl::state : Edit / Navigate / Search (tagged record)
    height,           \* Repl::height
    history,          \* Repl::history (History::cmds)
    file,             \* the Cmds stored in the history file, as written
    evals,            \* the strings handed to the evaluator so far
    status,           \* "running", "exited", "error" or "panicked"
    overflow_checks,  \* build profile: TRUE = arithmetic overflow panics
    paint,            \* what the last render_ui drew
    nkeys,            \* number of key events dispatched so far
    key,              \* the key event of this iteration ("none" before it)
    fn,               \* SpecCmd: the arguments and the result of a call
    raw_mode,         \* whether the terminal is in raw mode
    pc,               \* "idle" at the top of the loop of start, "read" while
                      \* event::read blocks, "done" once the loop was left
    ran               \* the evaluator call and the goodbye message of this
                      \* iteration, each with the raw mode it ran under

vars == <<state, height, history, file, evals, status, overflow_checks,
          paint, nkeys, key, fn, raw_mode, pc, ran>>

---------------------------------------------------------------------------
(* Bounds of the model and parameters of the environment *)

\* number of key events of a run
MaxKeys == 4
\* terminal::size().0, the width W of the input area
EditorWidth == 4
\* terminal::size().1
TermHeight == 3
\* default_prompt.len() = continue_prompt.len(), the prompt length P
PromptLen == 2
\* reverse_search_prompt.len()
RevSearchPromptLen == 1
\* SpecCmd: a Cmd has at most MaxLines Lines and MaxGraphemes graphemes
MaxLines == 2
MaxGraphemes == 4
\* SpecCmd: widths 1 .. MaxWidth, prompt lengths 0 .. MaxPrompt
MaxWidth == 4
MaxPrompt == 2

\* the characters a key event can carry
Chars == {"a", "b"}

\* the characters typed into a regex: those of Chars and "(", which opens a
\* group that is never closed
SearchChars == Chars \cup {"("}

---------------------------------------------------------------------------
(* Helpers *)

Min(a, b) == IF a < b THEN a ELSE b

Max(a, b) == IF a > b THEN a ELSE b

Take(s, n) == SubSeq(s, 1, Min(n, Len(s)))

Drop(s, n) == SubSeq(s, n + 1, Len(s))

RECURSIVE Flatten(_)
Flatten(ss) ==
    IF Len(ss) = 0 THEN <<>> ELSE Head(ss) \o Flatten(Tail(ss))

---------------------------------------------------------------------------
(* Line  (src/src/cmd.rs) *)

NewLine(kind) == [content |-> <<>>, kind |-> kind]

MkLine(content) == [content |-> content, kind |-> "Start"]

count_graphemes(line) == Len(line.content)

LineInsertChar(line, x_pos, c) ==
    [line EXCEPT !.content =
        Take(line.content, x_pos) \o <<c>> \o Drop(line.content, x_pos)]

LineRmGraphemeAt(line, xpos) ==
    [line EXCEPT !.content =
        Take(line.content, xpos) \o Drop(line.content, xpos + 1)]

LineRmGraphemeBefore(line, xpos) ==
    IF xpos = 0 THEN line ELSE LineRmGraphemeAt(line, xpos - 1)

fills_editor_width(line, editor_width, prompt_len, line_idx) ==
    IF line_idx = 0 \/ line.kind = "Start"
    THEN count_graphemes(line) = editor_width - prompt_len
    ELSE count_graphemes(line) = editor_width

RECURSIVE ContinueRows(_, _)
ContinueRows(graphemes, editor_width) ==
    IF Len(graphemes) = 0 THEN <<>>
    ELSE <<[content |-> Take(graphemes, editor_width), kind |-> "Continue"]>>
         \o ContinueRows(Drop(graphemes, editor_width), editor_width)

LineUncompress(line, editor_width, prompt_len) ==
    LET start == IF line.kind = "Start" THEN prompt_len ELSE 0
        n0 == IF start < editor_width
              THEN Min(editor_width - start, Len(line.content)) ELSE 0
        lline0 == [content |-> Take(line.content, n0), kind |-> line.kind]
    IN  (IF n0 > 0 THEN <<lline0>> ELSE <<>>)
        \o ContinueRows(Drop(line.content, n0), editor_width)

---------------------------------------------------------------------------
(* Cmd  (src/src/cmd.rs) *)

DefaultCmd == <<NewLine("Start")>>

Coords(x, y) == [x |-> x, y |-> y]

ORIGIN == Coords(0, 0)

\* faulty variant of CmdInsertChar: the Line written back is tagged as a
\* continuation row
CmdInsertCharContinue(cmd, pos, c) ==
    LET lines == IF Len(cmd) = 0 THEN <<NewLine("Start")>> ELSE cmd
    IN  [lines EXCEPT ![pos.y + 1] =
            [LineInsertChar(@, pos.x, c) EXCEPT !.kind = "Continue"]]

CmdInsertChar(cmd, pos, c) ==
    LET lines == IF Len(cmd) = 0 THEN DefaultCmd ELSE cmd
    IN  [lines EXCEPT ![pos.y + 1] = LineInsertChar(@, pos.x, c)]

\* faulty variant of CmdRmGraphemeBefore: a Line is never merged into the
\* previous one
CmdRmGraphemeBeforeInLine(cmd, pos, prompt_len) ==
    IF Len(cmd) = 0 THEN cmd
    ELSE [cmd EXCEPT ![pos.y + 1] = LineRmGraphemeBefore(@, pos.x)]

CmdRmGraphemeBefore(cmd, pos, prompt_len) ==
    IF Len(cmd) = 0 THEN cmd
    ELSE
    LET is_continuation == cmd[pos.y + 1].kind = "Continue"
        is_prompt_line == pos.y = 0
        is_start_of_prompt_line == pos.x <= prompt_len
        is_start_of_nonprompt_line ==
            IF is_continuation THEN pos.x = 0 ELSE pos.x <= prompt_len
    IN  IF is_prompt_line /\ is_start_of_prompt_line THEN cmd
        ELSE IF is_prompt_line
        THEN [cmd EXCEPT ![pos.y + 1] = LineRmGraphemeBefore(@, pos.x)]
        ELSE IF is_start_of_nonprompt_line
        THEN LET removed == cmd[pos.y + 1]
                 rest == SubSeq(cmd, 1, pos.y) \o SubSeq(cmd, pos.y + 2, Len(cmd))
             IN  [rest EXCEPT ![pos.y] =
                     [@ EXCEPT !.content = @ \o removed.content]]
        ELSE [cmd EXCEPT ![pos.y + 1] = LineRmGraphemeBefore(@, pos.x)]

CmdRmGraphemeAt(cmd, pos) ==
    IF Len(cmd) = 0 THEN cmd
    ELSE [cmd EXCEPT ![pos.y + 1] = LineRmGraphemeAt(@, pos.x)]

\* faulty variant of insert_empty_line: an empty Start Line is pushed at the
\* end of the Cmd and no Line is split
push_empty_line_at(cmd, pos) == Append(cmd, NewLine("Start"))

insert_empty_line(cmd, pos) ==
    LET line == cmd[pos.y + 1]
        head == [line EXCEPT !.content = Take(line.content, pos.x)]
        tail == MkLine(Drop(line.content, pos.x))
    IN  SubSeq(cmd, 1, pos.y) \o <<head, tail>> \o SubSeq(cmd, pos.y + 2, Len(cmd))

\* faulty variant of CompressRows: continuation rows are not merged
CompressRowsUnmerged(clines, rows) == clines \o rows

RECURSIVE CompressRows(_, _)
CompressRows(clines, rows) ==
    IF Len(rows) = 0 THEN clines
    ELSE LET line == Head(rows)
             n == Len(clines)
         IN  IF line.kind = "Continue"
             THEN CompressRows(
                    [clines EXCEPT ![n] = [@ EXCEPT !.content = @ \o line.content]],
                    Tail(rows))
             ELSE CompressRows(Append(clines, line), Tail(rows))

compress(cmd) ==
    IF Len(cmd) = 0 THEN cmd
    ELSE CompressRows(<<[content |-> cmd[1].content, kind |-> "Start"]>>, Tail(cmd))

\* faulty variant of uncompress: no empty row follows a full last row
uncompress_unpadded(cmd, editor_width, prompt_len) ==
    Flatten([i \in 1..Len(cmd) |->
        IF Len(cmd[i].content) = 0 THEN <<cmd[i]>>
        ELSE LineUncompress(cmd[i], editor_width, prompt_len)])

uncompress(cmd, editor_width, prompt_len) ==
    LET ulines == Flatten([i \in 1..Len(cmd) |->
                     IF Len(cmd[i].content) = 0 THEN <<cmd[i]>>
                     ELSE LineUncompress(cmd[i], editor_width, prompt_len)])
        n == Len(ulines)
    IN  IF n > 0 /\ fills_editor_width(ulines[n], editor_width, prompt_len, n - 1)
        THEN Append(ulines, NewLine("Continue"))
        ELSE ulines

end_of_cmd(cmd) ==
    IF Len(cmd) = 0 THEN ORIGIN
    ELSE Coords(count_graphemes(cmd[Len(cmd)]), Len(cmd) - 1)

RECURSIVE JoinLines(_)
JoinLines(contents) ==
    IF Len(contents) = 0 THEN <<>>
    ELSE IF Len(contents) = 1 THEN contents[1]
    ELSE contents[1] \o <<"\n">> \o JoinLines(Tail(contents))

\* faulty variant of to_source_code: empty Lines are joined as well
to_source_code_unfiltered(cmd) ==
    JoinLines([i \in 1..Len(cmd) |-> cmd[i].content])

to_source_code(cmd) ==
    JoinLines(SelectSeq([i \in 1..Len(cmd) |-> cmd[i].content],
                        LAMBDA s : Len(s) > 0))

---------------------------------------------------------------------------
(* History  (src/src/history.rs) *)

\* Regex::new(regex).is_ok(): every character of Chars is a literal
RegexCompiles(regex) == \A i \in 1..Len(regex) : regex[i] \in Chars

\* Regex::is_match for a pattern of literals: an unanchored substring match
is_match(regex, src) ==
    \E i \in 0..(Len(src) - Len(regex)) :
        SubSeq(src, i + 1, i + Len(regex)) = regex

max_idx(hist) == Len(hist) - 1

\* faulty variant of add_cmd: the Cmd is not recorded
add_cmd_dropped(hist, cmd) == hist

\* faulty variant of add_cmd: the Cmd is recorded as the oldest entry
add_cmd_front(hist, cmd) == <<cmd>> \o hist

add_cmd(hist, cmd) == Append(hist, cmd)

\* faulty variant of ReverseFilter: the history is walked oldest first
RECURSIVE ForwardFilter(_, _, _)
ForwardFilter(hist, regex, n) ==
    IF n = 0 THEN <<>>
    ELSE ForwardFilter(hist, regex, n - 1)
         \o (IF is_match(regex, to_source_code(hist[n])) THEN <<n - 1>> ELSE <<>>)

RECURSIVE ReverseFilter(_, _, _)
ReverseFilter(hist, regex, n) ==
    IF n = 0 THEN <<>>
    ELSE (IF is_match(regex, to_source_code(hist[n])) THEN <<n - 1>> ELSE <<>>)
         \o ReverseFilter(hist, regex, n - 1)

UPPER_LIMIT == 1000

\* faulty variant of RevUnique: repeated Cmds are kept
RevAll(hist, n, seen) == [i \in 1..n |-> hist[n + 1 - i]]

\* the Cmds of hist[1..n], newest first, without those in seen or repeated
RECURSIVE RevUnique(_, _, _)
RevUnique(hist, n, seen) ==
    IF n = 0 THEN <<>>
    ELSE IF hist[n] \in seen THEN RevUnique(hist, n - 1, seen)
    ELSE <<hist[n]>> \o RevUnique(hist, n - 1, seen \cup {hist[n]})

Reverse(s) == [i \in 1..Len(s) |-> s[Len(s) + 1 - i]]

\* faulty variant of TrimmedAt: the oldest Cmds are kept when the cap applies
TrimmedOldest(hist, limit) ==
    Take(Reverse(RevUnique(hist, Len(hist), {})), limit)

\* History::trimmed with take(limit)
TrimmedAt(hist, limit) ==
    Reverse(Take(RevUnique(hist, Len(hist), {}), limit))

trimmed(hist) == TrimmedAt(hist, UPPER_LIMIT)

\* serde_json::to_string_pretty: a History is the list of its Cmds, a Cmd the
\* list of its Lines, and a Line (serde(transparent), kind skipped) its
\* content alone
to_json(hist) ==
    [i \in 1..Len(hist) |-> [j \in 1..Len(hist[i]) |-> hist[i][j].content]]

\* faulty variant of write_to_file: the history is written untrimmed
write_to_file_untrimmed(hist) == to_json(hist)

\* the content of the file after a successful History::write_to_file
write_to_file(hist) == to_json(trimmed(hist))

\* the outcomes of History::write_to_file: Ok, an error from open (the file
\* is untouched) or an error from write_all (the file was truncated)
WriteOutcomes == {"ok", "open_failed", "write_failed"}

\* faulty variant of reverse_search: the characters that do not compile are
\* dropped from the pattern
reverse_search_lenient(hist, regex) ==
    ReverseFilter(hist, SelectSeq(regex, LAMBDA c : c \in Chars), Len(hist))

reverse_search(hist, regex) ==
    IF ~RegexCompiles(regex) THEN <<>>
    ELSE ReverseFilter(hist, regex, Len(hist))

---------------------------------------------------------------------------
(* State  (src/src/repl.rs) *)

EditState(buffer, cursor) ==
    [mode |-> "Edit", buffer |-> buffer, cursor |-> cursor]

NavigateState(hidx, backup, preview, cursor) ==
    [mode |-> "Navigate", hidx |-> hidx, backup |-> backup,
     preview |-> preview, cursor |-> cursor]

SearchState(regex, backup, preview, cursor, matches, current) ==
    [mode |-> "Search", regex |-> regex, backup |-> backup,
     preview |-> preview, cursor |-> cursor, matches |-> matches,
     current |-> current]

\* the Cmd on display: the buffer in Edit, the preview in Navigate and Search
ShownCmd(st) == IF st.mode = "Edit" THEN st.buffer ELSE st.preview

\* the Repl as one value: what a handler reads and returns
Machine ==
    [state |-> state, height |-> height, history |-> history, file |-> file,
     evals |-> evals, status |-> status]

Panic(m) == [m EXCEPT !.status = "panicked"]

\* the width of Coords::x, Coords::y, Repl::height and the terminal size
U16 == 65536

\* a u16 subtraction a - b without overflow checks
WrappedSub(a, b) == (a - b + U16) % U16

\* faulty variant of PreviewOf: the newest match is shown whatever current is
PreviewOfNewest(hist, matches, current) ==
    IF Len(matches) = 0 THEN DefaultCmd ELSE hist[matches[1] + 1]

PreviewOf(hist, matches, current) ==
    IF Len(matches) = 0 THEN DefaultCmd ELSE hist[matches[current + 1] + 1]

---------------------------------------------------------------------------
(* Key handlers  (src/src/repl.rs) *)

cmd_nop(m) == m

\* faulty variant of cmd_exit_repl: Ctrl-D is ignored
cmd_exit_repl_ignored(m) == m

cmd_exit_repl(m) == [m EXCEPT !.status = "exited"]

cmd_cancel_nav(m) ==
    IF m.state.mode = "Edit" THEN m
    ELSE [m EXCEPT !.state =
            EditState(m.state.backup, end_of_cmd(m.state.backup))]

\* faulty variant of cmd_nav_history_up: Navigate starts at the oldest Cmd
\* and keeps the cursor
cmd_nav_history_oldest(m, oc) ==
    IF m.state.mode = "Edit" /\ Len(m.history) > 0
    THEN [m EXCEPT !.state =
            NavigateState(0, m.state.buffer, m.history[1], m.state.cursor)]
    ELSE m

cmd_nav_history_up(m, oc) ==
    LET st == m.state
        hist == m.history
    IN  CASE st.mode = "Edit" ->
               IF Len(hist) = 0 THEN m
               ELSE [m EXCEPT !.state =
                        NavigateState(max_idx(hist), st.buffer,
                                      hist[max_idx(hist) + 1],
                                      end_of_cmd(hist[max_idx(hist) + 1]))]
          [] st.mode = "Navigate" ->
               IF st.hidx = 0 THEN m
               ELSE [m EXCEPT !.state =
                        [st EXCEPT !.hidx = @ - 1,
                                   !.preview = hist[st.hidx],
                                   !.cursor = end_of_cmd(hist[st.hidx])]]
          [] st.mode = "Search" ->
               \* matches.len() - 1 underflows on no matches: a panic with
               \* overflow checks, else usize::MAX, which current never reaches
               IF Len(st.matches) = 0 /\ oc THEN Panic(m)
               ELSE IF Len(st.matches) # 0 /\ st.current >= Len(st.matches) - 1
               THEN m
               ELSE [m EXCEPT !.state =
                        [st EXCEPT !.current = @ + 1,
                                   !.preview = PreviewOf(hist, st.matches,
                                                         st.current + 1)]]

\* faulty variant of cmd_nav_history_down: hidx moves, the preview stays
cmd_nav_history_down_stale(m) ==
    IF m.state.mode = "Navigate" /\ m.state.hidx < max_idx(m.history)
    THEN [m EXCEPT !.state.hidx = @ + 1]
    ELSE m

cmd_nav_history_down(m) ==
    LET st == m.state
        hist == m.history
    IN  CASE st.mode = "Edit" -> m
          [] st.mode = "Navigate" ->
               IF st.hidx = max_idx(hist)
               THEN [m EXCEPT !.state =
                        EditState(st.backup, end_of_cmd(st.backup))]
               ELSE [m EXCEPT !.state =
                        [st EXCEPT !.hidx = @ + 1,
                                   !.preview = hist[st.hidx + 2],
                                   !.cursor = end_of_cmd(hist[st.hidx + 2])]]
          [] st.mode = "Search" ->
               IF st.current = 0 THEN m
               ELSE IF Len(st.matches) # 0 /\ st.current - 1 >= Len(st.matches)
               THEN Panic(m)
               ELSE [m EXCEPT !.state =
                        [st EXCEPT !.current = @ - 1,
                                   !.preview = PreviewOf(hist, st.matches,
                                                         st.current - 1)]]

cmd_nav_up(m, oc) ==
    LET st == m.state
        cmd == ShownCmd(st)
    IN  IF st.cursor.y = 0 THEN cmd_nav_history_up(m, oc)
        ELSE IF st.cursor.y - 1 >= Len(cmd) THEN Panic(m)
        ELSE [m EXCEPT !.state.cursor =
                Coords(Min(st.cursor.x, count_graphemes(cmd[st.cursor.y])),
                       st.cursor.y - 1)]

cmd_nav_down(m) ==
    LET st == m.state
        cmd == ShownCmd(st)
    IN  IF st.cursor.y = Len(cmd) - 1 THEN cmd_nav_history_down(m)
        ELSE IF st.cursor.y + 1 >= Len(cmd) THEN Panic(m)
        ELSE [m EXCEPT !.state.cursor =
                Coords(Min(st.cursor.x, count_graphemes(cmd[st.cursor.y + 2])),
                       st.cursor.y + 1)]

\* faulty variant of NavLeft: no wrap to the previous Line
NavLeftClamped(cmd, cursor) ==
    IF cursor.x = 0 THEN cursor ELSE Coords(cursor.x - 1, cursor.y)

NavLeft(cmd, cursor) ==
    IF cursor = ORIGIN THEN cursor
    ELSE IF cursor.x = 0 /\ cursor.y >= 1
    THEN Coords(count_graphemes(cmd[cursor.y]), cursor.y - 1)
    ELSE IF cursor.x = 0 THEN cursor
    ELSE Coords(cursor.x - 1, cursor.y)

cmd_nav_cmd_left(m) ==
    LET st == m.state
    IN  IF st.mode = "Search"
        THEN [m EXCEPT !.state.cursor.x =
                IF st.cursor.x <= RevSearchPromptLen
                THEN RevSearchPromptLen ELSE st.cursor.x - 1]
        ELSE IF st.cursor # ORIGIN /\ st.cursor.x = 0
                /\ st.cursor.y - 1 >= Len(ShownCmd(st))
        THEN Panic(m)
        ELSE [m EXCEPT !.state.cursor = NavLeft(ShownCmd(st), st.cursor)]

NavRight(cmd, cursor) ==
    IF cursor = end_of_cmd(cmd) THEN cursor
    ELSE LET is_end_of_cursor_line ==
                 cursor.x = count_graphemes(cmd[cursor.y + 1])
             has_next_line == cursor.y + 1 < Len(cmd)
         IN  IF is_end_of_cursor_line /\ has_next_line
             THEN Coords(0, cursor.y + 1)
             ELSE IF is_end_of_cursor_line THEN cursor
             ELSE Coords(cursor.x + 1, cursor.y)

cmd_nav_cmd_right(m) ==
    LET st == m.state
    IN  IF st.mode = "Search"
        THEN [m EXCEPT !.state.cursor.x =
                IF st.cursor.x >= RevSearchPromptLen + Len(st.regex)
                THEN RevSearchPromptLen + Len(st.regex) ELSE st.cursor.x + 1]
        ELSE IF st.cursor # end_of_cmd(ShownCmd(st))
                /\ st.cursor.y >= Len(ShownCmd(st))
        THEN Panic(m)
        ELSE [m EXCEPT !.state.cursor = NavRight(ShownCmd(st), st.cursor)]

cmd_nav_to_start_of_cmd(m) ==
    IF m.state.mode = "Search"
    THEN [m EXCEPT !.state.cursor.x = RevSearchPromptLen]
    ELSE [m EXCEPT !.state.cursor = ORIGIN]

cmd_nav_to_end_of_cmd(m) ==
    IF m.state.mode = "Search"
    THEN [m EXCEPT !.state.cursor.x = RevSearchPromptLen + Len(m.state.regex)]
    ELSE [m EXCEPT !.state.cursor = end_of_cmd(ShownCmd(m.state))]

\* faulty variant of RunSearch: the cursor is put at the origin
RunSearchAtOrigin(m, regex, backup) ==
    [m EXCEPT !.state =
        SearchState(regex, backup,
                    PreviewOf(m.history, reverse_search(m.history, regex), 0),
                    ORIGIN, reverse_search(m.history, regex), 0)]

RunSearch(m, regex, backup) ==
    LET matches == reverse_search(m.history, regex)
    IN  [m EXCEPT !.state =
            SearchState(regex, backup, PreviewOf(m.history, matches, 0),
                        Coords(RevSearchPromptLen, 0), matches, 0)]

\* faulty variant of cmd_reverse_search_history: from Navigate the preview
\* is kept as the backup
cmd_reverse_search_preview(m) ==
    LET st == m.state
    IN  CASE st.mode = "Edit" -> RunSearch(m, <<>>, st.buffer)
          [] st.mode = "Navigate" -> RunSearch(m, <<>>, st.preview)
          [] st.mode = "Search" -> RunSearch(m, st.regex, st.backup)

cmd_reverse_search_history(m) ==
    LET st == m.state
    IN  CASE st.mode = "Edit" -> RunSearch(m, <<>>, st.buffer)
          [] st.mode = "Navigate" -> RunSearch(m, <<>>, st.backup)
          [] st.mode = "Search" -> RunSearch(m, st.regex, st.backup)

\* faulty variant of Promote: the cursor moves to the end of the preview
PromoteToEnd(m) ==
    IF m.state.mode = "Navigate"
    THEN [m EXCEPT !.state =
            EditState(m.state.preview, end_of_cmd(m.state.preview))]
    ELSE m

\* Navigate: the preview becomes the Edit buffer, the cursor is kept
Promote(m) ==
    IF m.state.mode = "Navigate"
    THEN [m EXCEPT !.state = EditState(m.state.preview, m.state.cursor)]
    ELSE m

\* faulty variant of RegexInsert: the char is pushed at the end of the regex
RegexPush(re, idx, c) == Append(re, c)

\* re.insert(cursor.x as usize - prompt_len, &c)
RegexInsert(re, idx, c) == Take(re, idx) \o <<c>> \o Drop(re, idx)

cmd_insert_char(m, c, oc) ==
    LET st == Promote(m).state
        rp == RevSearchPromptLen
        re == st.regex
        idx == st.cursor.x - rp
        regex == RegexInsert(re, idx, c)
        matches == reverse_search(m.history, regex)
    IN  IF st.mode = "Edit"
        THEN IF st.cursor.y >= Len(st.buffer) THEN Panic(m)
             ELSE [m EXCEPT !.state =
                     EditState(CmdInsertChar(st.buffer, st.cursor, c),
                               Coords(st.cursor.x + 1, st.cursor.y))]
        \* dims.width as usize - prompt_len - 1 underflows when W < rp + 1:
        \* a panic with overflow checks, else a bound no regex reaches
        ELSE IF EditorWidth < rp + 1 /\ oc THEN Panic(m)
        ELSE IF EditorWidth >= rp + 1 /\ Len(re) >= EditorWidth - rp - 1 THEN m
        ELSE IF idx < 0 \/ idx > Len(re) THEN Panic(m)
        ELSE [m EXCEPT !.state =
                [st EXCEPT !.regex = regex,
                           !.cursor.x = @ + 1,
                           !.matches = matches,
                           !.current = 0,
                           !.preview = PreviewOf(m.history, matches, 0)]]

\* faulty variant of cmd_insert_newline: the cursor stays where it was
cmd_insert_newline_stay(m) ==
    LET st == Promote(m).state
    IN  IF st.mode = "Search" THEN m
        ELSE IF st.cursor.y >= Len(st.buffer) THEN Panic(m)
        ELSE [m EXCEPT !.state =
                EditState(insert_empty_line(st.buffer, st.cursor), st.cursor)]

cmd_insert_newline(m) ==
    LET st == Promote(m).state
    IN  IF st.mode = "Search" THEN m
        ELSE IF st.cursor.y >= Len(st.buffer) THEN Panic(m)
        ELSE [m EXCEPT !.state =
                EditState(insert_empty_line(st.buffer, st.cursor),
                          Coords(0, st.cursor.y + 1))]

cmd_rm_grapheme_before_cursor(m, oc) ==
    LET st == Promote(m).state
        rp == RevSearchPromptLen
        re == st.regex
        rmidx == st.cursor.x - rp
        regex == Take(re, rmidx - 1) \o Drop(re, rmidx)
        matches == reverse_search(m.history, regex)
    IN  IF st.mode = "Edit"
        THEN IF st.cursor = ORIGIN THEN Promote(m)
             ELSE IF st.cursor.y >= Len(st.buffer) THEN Panic(m)
             ELSE [m EXCEPT !.state =
                     EditState(
                       CmdRmGraphemeBefore(st.buffer, st.cursor, PromptLen),
                       IF st.cursor.y > 0 /\ st.cursor.x = 0
                       THEN Coords(count_graphemes(st.buffer[st.cursor.y]),
                                   st.cursor.y - 1)
                       ELSE Coords(st.cursor.x - 1, st.cursor.y))]
        ELSE IF rmidx < 0 /\ oc THEN Panic(m)
        ELSE IF Len(re) = 0 \/ rmidx = 0 THEN m
        ELSE IF rmidx < 0 \/ rmidx - 1 >= Len(re) THEN Panic(m)
        ELSE IF Len(matches) # 0 /\ st.current >= Len(matches) THEN Panic(m)
        ELSE [m EXCEPT !.state =
                [st EXCEPT !.regex = regex,
                           !.cursor.x = @ - 1,
                           !.matches = matches,
                           !.preview = PreviewOf(m.history, matches, st.current)]]

cmd_rm_grapheme_at_cursor(m, oc) ==
    LET st == Promote(m).state
        rp == RevSearchPromptLen
        re == st.regex
        rmidx == st.cursor.x - rp
        regex == Take(re, rmidx) \o Drop(re, rmidx + 1)
        matches == reverse_search(m.history, regex)
    IN  IF st.mode = "Edit"
        THEN IF st.cursor.y >= Len(st.buffer) THEN Panic(m)
             ELSE LET is_end_of_line ==
                          st.cursor.x = count_graphemes(st.buffer[st.cursor.y + 1])
                      has_next_line == st.cursor.y + 1 < Len(st.buffer)
                  IN  IF is_end_of_line /\ ~has_next_line THEN Promote(m)
                      ELSE [m EXCEPT !.state =
                              EditState(CmdRmGraphemeAt(st.buffer, st.cursor),
                                        st.cursor)]
        ELSE IF rmidx < 0 /\ oc THEN Panic(m)
        ELSE IF Len(re) = 0 \/ rmidx = Len(re) THEN m
        ELSE IF rmidx < 0 \/ rmidx >= Len(re) THEN Panic(m)
        ELSE IF Len(matches) # 0 /\ st.current >= Len(matches) THEN Panic(m)
        ELSE [m EXCEPT !.state =
                [st EXCEPT !.regex = regex,
                           !.matches = matches,
                           !.preview = PreviewOf(m.history, matches, st.current)]]

\* faulty variant of SourceIsEmpty: every source is submitted
SourceNeverEmpty(source_code) == FALSE

\* source_code.is_empty()
SourceIsEmpty(source_code) == Len(source_code) = 0

\* faulty variant of cmd_eval: the evaluator runs before the file is written
cmd_eval_first(m, write, eval_ok) ==
    LET st == EditState(ShownCmd(m.state), m.state.cursor)
        source_code == to_source_code(st.buffer)
        called == [m EXCEPT !.state = EditState(DefaultCmd, st.cursor),
                            !.history = add_cmd(m.history, st.buffer),
                            !.evals = Append(@, source_code)]
    IN  IF SourceIsEmpty(source_code) THEN [m EXCEPT !.state = st]
        ELSE IF ~eval_ok \/ write # "ok" THEN [called EXCEPT !.status = "error"]
        ELSE [called EXCEPT !.file = write_to_file(called.history),
                            !.height = 1, !.state.cursor = ORIGIN]

cmd_eval(m, write, eval_ok) ==
    LET st == EditState(ShownCmd(m.state), m.state.cursor)
        source_code == to_source_code(st.buffer)
        hist == add_cmd(m.history, st.buffer)
        taken == [m EXCEPT !.state = EditState(DefaultCmd, st.cursor),
                           !.history = hist]
        written == [taken EXCEPT !.file = write_to_file(hist)]
        called == [written EXCEPT !.evals = Append(@, source_code)]
    IN  IF SourceIsEmpty(source_code) THEN [m EXCEPT !.state = st]
        ELSE IF write = "open_failed" THEN [taken EXCEPT !.status = "error"]
        ELSE IF write = "write_failed"
        THEN [taken EXCEPT !.status = "error", !.file = <<>>]
        ELSE IF ~eval_ok THEN [called EXCEPT !.status = "error"]
        ELSE [called EXCEPT !.height = 1, !.state.cursor = ORIGIN]

---------------------------------------------------------------------------
(* Repainting  (src/src/repl.rs, render_ui) *)

RECURSIVE SumRows(_, _, _, _)
SumRows(cmd, n, editor_width, prompt_len) ==
    IF n = 0 THEN 0
    ELSE Len(LineUncompress(cmd[n], editor_width, prompt_len))
         + SumRows(cmd, n - 1, editor_width, prompt_len)

\* the for loop of calculate_uncursor over the rows of the cursor's Line
RECURSIVE WalkRows(_, _, _)
WalkRows(unlines, uncursor, editor_width) ==
    IF Len(unlines) = 0 THEN uncursor
    ELSE LET width == Min(editor_width, count_graphemes(Head(unlines)))
         IN  IF uncursor.x > width
             THEN WalkRows(Tail(unlines),
                           Coords(uncursor.x - width, uncursor.y + 1),
                           editor_width)
             ELSE uncursor

\* the visual cursor before the prompt is added
UncursorRow(cmd, cursor, editor_width, prompt_len) ==
    WalkRows(LineUncompress(cmd[cursor.y + 1], editor_width, prompt_len),
             Coords(cursor.x, SumRows(cmd, cursor.y, editor_width, prompt_len)),
             editor_width)

\* calculate_uncursor indexes cmd[cursor.y] and uncompressed[uncursor.y]
UncursorPanics(cmd, cursor, editor_width, prompt_len) ==
    \/ cursor.y >= Len(cmd)
    \/ UncursorRow(cmd, cursor, editor_width, prompt_len).y
         >= Len(uncompress(cmd, editor_width, prompt_len))

calculate_uncursor(cmd, cursor, editor_width, prompt_len) ==
    LET uncursor == UncursorRow(cmd, cursor, editor_width, prompt_len)
        uncompressed == uncompress(cmd, editor_width, prompt_len)
    IN  IF uncompressed[uncursor.y + 1].kind = "Start"
        THEN Coords(uncursor.x + prompt_len, uncursor.y)
        ELSE uncursor

\* Repl::origin: y = term_height - height, a u16 subtraction
origin_y(h) == WrappedSub(TermHeight, h)

NoPaint == [at |-> 0, content_height |-> 1, scrolls |-> 0,
            cursor_row |-> 0, cursor_col |-> 0, prompt_row |-> 0]

\* faulty variant of ScrollUps: one scroll per content row
ScrollUpsFromTop(old_height, content_height) == content_height

\* for _ in old_input_area_height..content_height { ScrollUp(1) }
ScrollUps(old_height, content_height) == Max(0, content_height - old_height)

\* faulty variant of GrowHeight: the height follows the content
FitHeight(h, content_height) == content_height

\* self.height = max(self.height, content_height)
GrowHeight(h, content_height) == Max(h, content_height)

\* render_ui after the handler returned m; old_height is the height before
\* the key event was dispatched.  The result is <<machine, paint>>.
render_ui(m, old_height, oc, at, old_paint) ==
    LET st == m.state
        cmd == ShownCmd(st)
        uncompressed == uncompress(cmd, EditorWidth, PromptLen)
        content_height ==
            Len(uncompressed) + (IF st.mode = "Search" THEN 1 ELSE 0)
        h == GrowHeight(m.height, content_height)
        grown == [m EXCEPT !.height = h]
        scrolls == ScrollUps(old_height, content_height)
        o == origin_y(h)
        uncursor == calculate_uncursor(cmd, st.cursor, EditorWidth, PromptLen)
    IN  IF st.mode # "Search"
           /\ UncursorPanics(cmd, st.cursor, EditorWidth, PromptLen)
        THEN <<Panic(grown), old_paint>>
        ELSE IF h > TermHeight /\ oc THEN <<Panic(grown), old_paint>>
        ELSE IF st.mode = "Search"
        THEN <<grown,
               [at |-> at, content_height |-> content_height,
                scrolls |-> scrolls,
                cursor_row |-> (o + st.cursor.y + h) % U16,
                cursor_col |-> st.cursor.x,
                prompt_row |-> (o + h) % U16]>>
        ELSE <<grown,
               [at |-> at, content_height |-> content_height,
                scrolls |-> scrolls,
                cursor_row |-> (o + uncursor.y) % U16,
                cursor_col |-> uncursor.x,
                prompt_row |-> 0]>>

---------------------------------------------------------------------------
(* The event loop  (src/src/repl.rs, Repl::new / start / dispatch_key_event) *)

\* the histories History::read_from_file can return at startup
HistA == <<MkLine(<<"a", "b">>)>>

HistB == <<MkLine(<<"b">>), MkLine(<<"a">>)>>

InitHistories == {<<>>, <<HistA, HistB>>}

Idle == [op |-> "idle"]

Init ==
    /\ state = EditState(DefaultCmd, ORIGIN)
    /\ height = 1
    /\ history \in InitHistories
    /\ file = to_json(history)
    /\ evals = <<>>
    /\ status = "running"
    /\ overflow_checks \in BOOLEAN
    /\ paint = NoPaint
    /\ nkeys = 0
    /\ key = "none"
    /\ fn = Idle
    /\ raw_mode = FALSE
    /\ pc = "idle"
    /\ ran = <<>>

\* faulty variant of Rendered: render_ui runs whatever the handler returned
RenderedAlways(m2) ==
    render_ui(m2, height, overflow_checks, nkeys + 1, paint)

\* the rest of an iteration of Repl::start once the handler returned m2:
\* render_ui(old_height) runs unless the handler stopped the loop
Rendered(m2) ==
    IF m2.status = "running"
    THEN render_ui(m2, height, overflow_checks, nkeys + 1, paint)
    ELSE <<m2, paint>>

\* faulty variant of disable_raw_mode: raw mode is left as it is
disable_raw_mode_skipped(raw) == raw

\* terminal::enable_raw_mode() and terminal::disable_raw_mode() returning Ok
enable_raw_mode(raw) == TRUE

disable_raw_mode(raw) == FALSE

\* the evaluator call and the goodbye message of a handler that turned m into
\* m2 under the raw mode raw
Ran(m, m2, raw) ==
    (IF Len(m2.evals) > Len(m.evals)
     THEN <<[what |-> "evaluator", raw_mode |-> raw]>> ELSE <<>>)
    \o (IF m2.status = "exited"
        THEN <<[what |-> "goodbye", raw_mode |-> raw]>> ELSE <<>>)

\* the top of an iteration of Repl::start: dispatch_key_event enables raw
\* mode and blocks in event::read()
AwaitKey ==
    /\ status = "running"
    /\ pc = "idle"
    /\ nkeys < MaxKeys
    /\ raw_mode' = enable_raw_mode(raw_mode)
    /\ pc' = "read"
    /\ key' = "none"
    /\ ran' = <<>>
    /\ UNCHANGED <<state, height, history, file, evals, status,
                   overflow_checks, paint, nkeys, fn>>

\* the rest of the iteration: event::read() returned the key event k, raw
\* mode is disabled, the handler returned m2 and render_ui ran
Step(k, m2) ==
    /\ status = "running"
    /\ pc = "read"
    /\ nkeys < MaxKeys
    /\ nkeys' = nkeys + 1
    /\ key' = k
    /\ raw_mode' = disable_raw_mode(raw_mode)
    /\ ran' = Ran(Machine, m2, raw_mode')
    /\ \E r \in {Rendered(m2)} :
           /\ state' = r[1].state
           /\ height' = r[1].height
           /\ history' = r[1].history
           /\ file' = r[1].file
           /\ evals' = r[1].evals
           /\ status' = r[1].status
           /\ paint' = r[2]
           /\ pc' = IF r[1].status = "running" THEN "idle" ELSE "done"
    /\ UNCHANGED <<overflow_checks, fn>>

\* Ctrl-C, and every event the match ignores
KeyNop == Step("Nop", cmd_nop(Machine))

KeyCtrlD == Step("CtrlD", cmd_exit_repl(Machine))

KeyCtrlG == Step("CtrlG", cmd_cancel_nav(Machine))

KeyEnter ==
    \E write \in WriteOutcomes, eval_ok \in BOOLEAN :
        Step("Enter", cmd_eval(Machine, write, eval_ok))

KeyUp == Step("Up", cmd_nav_up(Machine, overflow_checks))

KeyDown == Step("Down", cmd_nav_down(Machine))

KeyLeft == Step("Left", cmd_nav_cmd_left(Machine))

KeyRight == Step("Right", cmd_nav_cmd_right(Machine))

KeyHome == Step("Home", cmd_nav_to_start_of_cmd(Machine))

KeyEnd == Step("End", cmd_nav_to_end_of_cmd(Machine))

KeyCtrlR == Step("CtrlR", cmd_reverse_search_history(Machine))

\* a printable character: "(" is typed only where it is interpreted, into
\* the regex of Search mode
KeyChar ==
    \E c \in (IF state.mode = "Search" THEN SearchChars ELSE Chars) :
        Step("Char", cmd_insert_char(Machine, c, overflow_checks))

KeyCtrlO == Step("CtrlO", cmd_insert_newline(Machine))

KeyBackspace == Step("Backspace", cmd_rm_grapheme_before_cursor(Machine, overflow_checks))

KeyDelete == Step("Delete", cmd_rm_grapheme_at_cursor(Machine, overflow_checks))

\* terminal::enable_raw_mode() returns an error, which start() returns
EnableError ==
    /\ status = "running"
    /\ pc = "idle"
    /\ nkeys < MaxKeys
    /\ status' = "error"
    /\ pc' = "done"
    /\ key' = "none"
    /\ ran' = <<>>
    /\ UNCHANGED <<state, height, history, file, evals, overflow_checks,
                   paint, nkeys, fn, raw_mode>>

\* event::read() returns an error, which start() returns
ReadError ==
    /\ status = "running"
    /\ pc = "read"
    /\ nkeys < MaxKeys
    /\ nkeys' = nkeys + 1
    /\ status' = "error"
    /\ pc' = "done"
    /\ UNCHANGED <<state, height, history, file, evals, overflow_checks,
                   paint, key, fn, raw_mode, ran>>

\* event::read() returns a key event and terminal::disable_raw_mode() an
\* error, which start() returns: no handler runs
DisableError ==
    /\ status = "running"
    /\ pc = "read"
    /\ nkeys < MaxKeys
    /\ nkeys' = nkeys + 1
    /\ status' = "error"
    /\ pc' = "done"
    /\ UNCHANGED <<state, height, history, file, evals, overflow_checks,
                   paint, key, fn, raw_mode, ran>>

Next ==
    \/ AwaitKey
    \/ KeyNop
    \/ KeyCtrlD
    \/ KeyCtrlG
    \/ KeyEnter
    \/ KeyUp
    \/ KeyDown
    \/ KeyLeft
    \/ KeyRight
    \/ KeyHome
    \/ KeyEnd
    \/ KeyCtrlR
    \/ KeyChar
    \/ KeyCtrlO
    \/ KeyBackspace
    \/ KeyDelete
    \/ EnableError
    \/ ReadError
    \/ DisableError

Spec == Init /\ [][Next]_vars

---------------------------------------------------------------------------
(* Cmd::uncompress, Cmd::compress and calculate_uncursor on their own:      *)
(* SpecCmd draws a compressed Cmd, an editor width and a prompt length and  *)
(* applies the functions to them.                                           *)

RECURSIVE Seqs(_, _)
Seqs(S, n) ==
    IF n = 0 THEN {<<>>}
    ELSE Seqs(S, n - 1) \cup {Append(s, x) : s \in Seqs(S, n - 1), x \in S}

RECURSIVE TotalGraphemes(_, _)
TotalGraphemes(cmd, n) ==
    IF n = 0 THEN 0 ELSE count_graphemes(cmd[n]) + TotalGraphemes(cmd, n - 1)

\* the compressed Cmds: 1 .. MaxLines Lines of kind Start
\* the sequences of at most n Lines of kind Start holding at most g
\* graphemes in all
RECURSIVE CmdsWithin(_, _)
CmdsWithin(n, g) ==
    IF n = 0 THEN {<<>>}
    ELSE {<<>>} \cup
         UNION {{<<MkLine(c)>> \o rest : rest \in CmdsWithin(n - 1, g - Len(c))} :
                    c \in Seqs(Chars, g)}

CompressedCmds == CmdsWithin(MaxLines, MaxGraphemes) \ {<<>>}

\* the valid compressed cursors of cmd
ValidCursors(cmd) ==
    {c \in {Coords(x, y) : x \in 0..MaxGraphemes, y \in 0..(Len(cmd) - 1)} :
        c.x <= count_graphemes(cmd[c.y + 1])}

InitCmd ==
    /\ state = EditState(DefaultCmd, ORIGIN)
    /\ height = 1
    /\ history = <<>>
    /\ file = <<>>
    /\ evals = <<>>
    /\ status = "running"
    /\ overflow_checks = TRUE
    /\ paint = NoPaint
    /\ nkeys = 0
    /\ key = "none"
    /\ raw_mode = FALSE
    /\ pc = "idle"
    /\ ran = <<>>
    /\ \E cmd \in CompressedCmds, p \in 0..MaxPrompt :
         \E w \in (p + 1)..MaxWidth :
            fn = [op |-> "input", cmd |-> cmd, w |-> w, p |-> p]

Keep == UNCHANGED <<state, height, history, file, evals, status,
                    overflow_checks, paint, nkeys, key, raw_mode, pc, ran>>

\* cmd.uncompress(w, p)
FnUncompress ==
    /\ fn.op = "input"
    /\ fn' = [fn EXCEPT !.op = "uncompressed"] @@
             [out |-> uncompress(fn.cmd, fn.w, fn.p)]
    /\ Keep

\* cmd.uncompress(w, p).compress()
FnCompress ==
    /\ fn.op = "uncompressed"
    /\ fn' = [fn EXCEPT !.op = "compressed", !.out = compress(fn.out)]
    /\ Keep

\* calculate_uncursor(cmd, &cmd.uncompress(w, p), cursor)
FnUncursor ==
    /\ fn.op = "input"
    /\ \E cursor \in ValidCursors(fn.cmd) :
         fn' = [fn EXCEPT !.op = "uncursor"] @@
               [cursor |-> cursor,
                rows |-> Len(uncompress(fn.cmd, fn.w, fn.p)),
                panicked |-> UncursorPanics(fn.cmd, cursor, fn.w, fn.p),
                out |-> IF UncursorPanics(fn.cmd, cursor, fn.w, fn.p)
                        THEN ORIGIN
                        ELSE calculate_uncursor(fn.cmd, cursor, fn.w, fn.p)]
    /\ Keep

NextCmd ==
    \/ FnUncompress
    \/ FnCompress
    \/ FnUncursor

SpecCmd == InitCmd /\ [][NextCmd]_vars

---------------------------------------------------------------------------
(* History::trimmed as a function of the history: Cmds are added one by one
   and the history is trimmed as write_to_file does or searched. The cap of take() is
   UPPER_LIMIT or one of the limits 1 .. MaxLimit standing for it. *)

MaxHist == 3
MaxLimit == 2
MaxRegex == 2

HistCmds == {<<MkLine(<<"a">>)>>, <<MkLine(<<"b">>)>>, HistB}

InitHist ==
    /\ state = EditState(DefaultCmd, ORIGIN)
    /\ height = 1
    /\ history = <<>>
    /\ file = <<>>
    /\ evals = <<>>
    /\ status = "running"
    /\ overflow_checks = TRUE
    /\ paint = NoPaint
    /\ nkeys = 0
    /\ key = "none"
    /\ raw_mode = FALSE
    /\ pc = "idle"
    /\ ran = <<>>
    /\ \E limit \in (1..MaxLimit) \cup {UPPER_LIMIT} :
         fn = [op |-> "input", limit |-> limit, regex |-> <<>>, out |-> <<>>]

\* history.add_cmd(cmd)
FnAddCmd ==
    /\ Len(history) < MaxHist
    /\ \E cmd \in HistCmds : history' = add_cmd(history, cmd)
    /\ fn' = [fn EXCEPT !.op = "added", !.regex = <<>>, !.out = <<>>]
    /\ UNCHANGED <<state, height, file, evals, status, overflow_checks,
                   paint, nkeys, key, raw_mode, pc, ran>>

\* history.trimmed()
FnTrimmed ==
    /\ fn.op # "trimmed"
    /\ fn' = [fn EXCEPT !.op = "trimmed",
                       !.regex = <<>>,
                       !.out = IF fn.limit = UPPER_LIMIT THEN trimmed(history)
                               ELSE TrimmedAt(history, fn.limit)]
    /\ Keep

\* history.reverse_search(regex), which does not depend on the cap
FnReverseSearch ==
    /\ fn.op # "searched"
    /\ fn.limit = UPPER_LIMIT
    /\ \E regex \in Seqs(SearchChars, MaxRegex) :
         fn' = [fn EXCEPT !.op = "searched",
                          !.regex = regex,
                          !.out = reverse_search(history, regex)]
    /\ Keep

NextHist ==
    \/ FnAddCmd
    \/ FnTrimmed
    \/ FnReverseSearch

SpecHist == InitHist /\ [][NextHist]_vars

---------------------------------------------------------------------------
(* Properties *)

\* C1: for every compressed Cmd (at least one Line, all of kind Start),
\* every prompt length P >= 0 and every width W >= P + 1, compressing the
\* uncompressed Cmd gives the Cmd back: same Lines, contents and kinds.
C1_RoundTrip ==
    fn.op = "compressed" => fn.out = fn.cmd

\* a Cmd of two Lines whose first Line wraps was uncompressed and compressed
C1_Witness ==
    /\ fn.op = "compressed"
    /\ Len(fn.cmd) = 2
    /\ count_graphemes(fn.cmd[1]) > fn.w - fn.p
    /\ fn.p > 0
    /\ fn.out = fn.cmd

\* C3: for every valid compressed cursor of a compressed Cmd the visual
\* cursor (vx, vy) of the repaint has 0 <= vx < W and 0 <= vy < number of
\* rows of uncompress(cmd, W, P).
C3_UncursorInBounds ==
    fn.op = "uncursor" =>
        /\ ~fn.panicked
        /\ 0 <= fn.out.x /\ fn.out.x < fn.w
        /\ 0 <= fn.out.y /\ fn.out.y < fn.rows

\* the Cmd on display and the string Enter would hand to the evaluator
Shown == ShownCmd(state)

\* C2: after any sequence of key events the cursor of Edit mode is a valid
\* position of the buffer and the cursor of Navigate mode a valid position
\* of the preview: cursor.y <= lines - 1 and cursor.x <= graphemes of that
\* Line, also in the Edit states Enter reaches from Search or Navigate.
C2_CursorValid ==
    (status = "running" /\ state.mode \in {"Edit", "Navigate"}) =>
        /\ state.cursor.y <= Len(Shown) - 1
        /\ state.cursor.x <= count_graphemes(Shown[state.cursor.y + 1])

\* the rows the content on display needs
ContentHeight ==
    Len(uncompress(Shown, EditorWidth, PromptLen))
    + (IF state.mode = "Search" THEN 1 ELSE 0)

\* an Enter whose evaluation succeeded
SuccessfulSubmission ==
    key' = "Enter" /\ Len(evals') = Len(evals) + 1 /\ status' = "running"

\* C4: the height of the input area is always >= 1 and never decreases
\* from one repaint to the next, except that an Enter whose evaluation
\* succeeds resets it to 1.
C4_HeightMonotone ==
    [][/\ height >= 1 /\ height' >= 1
       /\ \/ height' >= height
          \/ SuccessfulSubmission /\ height' = 1]_vars

\* after deleting text or leaving Search the height exceeds the content
C4_Witness ==
    /\ status = "running"
    /\ key \in {"Backspace", "Delete", "CtrlG"}
    /\ height > ContentHeight

\* Ctrl-G outside Edit, or Down in Navigate on the last row of the newest Cmd
Cancellation ==
    \/ key' = "CtrlG" /\ state.mode # "Edit"
    \/ /\ key' = "Down"
       /\ state.mode = "Navigate"
       /\ state.hidx = max_idx(history)
       /\ state.cursor.y = Len(state.preview) - 1

\* C5: Navigate and Search carry the buffer Edit mode held when it was left
\* (also when Search is entered from Navigate), and a cancellation returns
\* to Edit mode with exactly that buffer and leaves the history unchanged.
C5_BackupRestore ==
    [][/\ (state.mode = "Edit" /\ state'.mode # "Edit")
            => state'.backup = state.buffer
       /\ (state.mode # "Edit" /\ state'.mode # "Edit")
            => state'.backup = state.backup
       /\ Cancellation
            => /\ state'.mode = "Edit"
               /\ state'.buffer = state.backup
               /\ history' = history]_vars

\* a typed buffer came back by Ctrl-G from a Search that previewed two Lines
C5_Witness ==
    /\ key = "CtrlG"
    /\ nkeys = 4
    /\ state.mode = "Edit"
    /\ to_source_code(state.buffer) # <<>>
    /\ height = 3
    /\ Len(history) > 0

\* C6: Up from Edit with the cursor on row 0 and n >= 1 Cmds in the history
\* enters Navigate with hidx = n - 1, backup = buffer, preview =
\* history[n - 1] and the cursor at the end of the preview; a further
\* history-up decrements hidx and previews history[hidx] until hidx = 0,
\* where it is a NOP; with an empty history Up leaves Edit unchanged.
C6_HistoryUp ==
    [][(key' = "Up" /\ state.cursor.y = 0) =>
         /\ (state.mode = "Edit" /\ Len(history) >= 1) =>
               state' = NavigateState(Len(history) - 1, state.buffer,
                                      history[Len(history)],
                                      end_of_cmd(history[Len(history)]))
         /\ (state.mode = "Edit" /\ Len(history) = 0) => state' = state
         /\ (state.mode = "Navigate" /\ state.hidx > 0) =>
               state' = NavigateState(state.hidx - 1, state.backup,
                                      history[state.hidx],
                                      end_of_cmd(history[state.hidx]))
         /\ (state.mode = "Navigate" /\ state.hidx = 0) => state' = state
      ]_vars

\* the oldest Cmd is previewed after Up was pressed again
C6_Witness ==
    /\ key = "Up"
    /\ state.mode = "Navigate"
    /\ state.hidx = 0
    /\ Len(history) = 2
    /\ state.preview = history[1]
    /\ nkeys >= 2

\* the Repl with the preview promoted by hand: Edit, same cursor
Promoted ==
    [Machine EXCEPT !.state = EditState(state.preview, state.cursor)]

\* the key event k acting on the Repl m
Handler(k, m, c) ==
    CASE k = "Char" -> cmd_insert_char(m, c, overflow_checks)
      [] k = "CtrlO" -> cmd_insert_newline(m)
      [] k = "Backspace" -> cmd_rm_grapheme_before_cursor(m, overflow_checks)
      [] k = "Delete" -> cmd_rm_grapheme_at_cursor(m, overflow_checks)

\* C7: a printable char, Ctrl-O, Backspace or Delete in Navigate mode has
\* exactly the effect the key has in Edit mode on the preview taken as the
\* buffer with the same cursor; the editor ends in Edit mode and the
\* history, hence the previewed entry, is unchanged.
C7_MutateInNavigate ==
    [][(state.mode = "Navigate"
        /\ key' \in {"Char", "CtrlO", "Backspace", "Delete"}) =>
         /\ \E c \in Chars : Step(key', Handler(key', Promoted, c))
         /\ state'.mode = "Edit"
         /\ history' = history
      ]_vars

\* a char was typed into the first Line of a previewed Cmd of two Lines
C7_Witness ==
    /\ key = "Char"
    /\ nkeys = 3
    /\ state.mode = "Edit"
    /\ history = <<HistA, HistB>>
    /\ Len(state.buffer) = 2
    /\ state.cursor = Coords(2, 0)
    /\ count_graphemes(state.buffer[1]) = 2
    /\ state.buffer[2] = HistB[2]

\* what Enter does to the history, the evaluator and, on success, the
\* editor; write_ok restricts the evaluator's call to a written file
Submission(write_ok) ==
    (key' = "Enter" /\ to_source_code(Shown) # <<>>) =>
        /\ history' = Append(history, Shown)
        /\ write_ok =>
               evals' = Append(evals, to_source_code(Shown))
        /\ status' = "running" =>
               /\ state' = EditState(DefaultCmd, ORIGIN)
               /\ height' = 1

C9_EmptyEnter ==
    [][(key' = "Enter" /\ state.mode = "Edit"
        /\ to_source_code(state.buffer) = <<>>) =>
         /\ UNCHANGED <<state, height, history, file, evals>>
         /\ status' = "running"
      ]_vars

\* Enter was pressed on a buffer of two empty Lines
C9_Witness ==
    /\ key = "Enter"
    /\ state.mode = "Edit"
    /\ Len(state.buffer) = 2
    /\ to_source_code(state.buffer) = <<>>
    /\ evals = <<>>

\* the contents of the non-empty Lines of cmd[from ..], each followed by sep
RECURSIVE NonEmptyJoined(_, _, _)
NonEmptyJoined(cmd, from, first) ==
    IF from > Len(cmd) THEN <<>>
    ELSE IF cmd[from].content = <<>> THEN NonEmptyJoined(cmd, from + 1, first)
    ELSE (IF first THEN <<>> ELSE <<"\n">>) \o cmd[from].content
         \o NonEmptyJoined(cmd, from + 1, FALSE)

\* C10: the string handed to the evaluator is the contents of the non-empty
\* Lines of the submitted Cmd, in order, joined by single newlines; it is
\* never empty, never starts or ends with a newline and never contains two
\* newlines in a row.
C10_SourceCode ==
    [][(key' = "Enter" /\ evals' # evals) =>
         \E src \in {NonEmptyJoined(Shown, 1, TRUE)} :
            /\ evals' = Append(evals, src)
            /\ src # <<>>
            /\ src[1] # "\n" /\ src[Len(src)] # "\n"
            /\ \A i \in 1..(Len(src) - 1) :
                   ~(src[i] = "\n" /\ src[i + 1] = "\n")
      ]_vars

\* a Cmd with an empty Line before a non-empty one was evaluated
C10_Witness ==
    /\ key = "Enter"
    /\ Len(evals) = 1
    /\ Len(history) \in {1, 3}
    /\ Len(history[Len(history)]) = 2
    /\ history[Len(history)][1].content = <<>>
    /\ evals[1] = history[Len(history)][2].content

\* the indices of the Cmds of hist whose source code holds regex as a
\* substring, newest first
MatchesOf(hist, regex) ==
    LET hits == {i \in 0..(Len(hist) - 1) :
                    is_match(regex, to_source_code(hist[i + 1]))}
        Newest[k \in 0..Cardinality(hits)] ==
            IF k = 0 THEN <<>>
            ELSE LET rest == hits \ {Newest[k - 1][j] : j \in 1..(k - 1)}
                 IN  Append(Newest[k - 1],
                            CHOOSE i \in rest : \A j \in rest : j <= i)
    IN  IF RegexCompiles(regex) THEN Newest[Cardinality(hits)] ELSE <<>>

\* C11: in every Search state matches is the reverse search of regex on the
\* history; when matches is non-empty, current < len(matches) and preview is
\* history[matches[current]]; otherwise preview is the default Cmd.  This
\* also holds after Backspace and Delete in the regex, which keep current.
C11_SearchConsistent ==
    (state.mode = "Search" /\ status # "panicked") =>
        /\ state.matches = MatchesOf(history, state.regex)
        /\ IF Len(state.matches) > 0
           THEN /\ state.current < Len(state.matches)
                /\ state.preview = history[state.matches[state.current + 1] + 1]
           ELSE state.preview = DefaultCmd

\* Backspace emptied the regex while the second match was current
C11_Witness ==
    /\ key = "Backspace"
    /\ status = "running"
    /\ state.mode = "Search"
    /\ state.regex = <<>>
    /\ state.current = 1
    /\ Len(state.matches) = 2
    /\ state.preview = history[1]

\* C12: Ctrl-R in Edit or Navigate gives a Search state with an empty regex,
\* backup = the Edit buffer (resp. the Navigate backup), current = 0,
\* matches = every history index newest first, preview = the newest Cmd (the
\* default Cmd for an empty history) and cursor = (reverse-search prompt
\* length, 0).
C12_EnterSearch ==
    [][(key' = "CtrlR" /\ state.mode \in {"Edit", "Navigate"}) =>
         state' = SearchState(
                    <<>>,
                    IF state.mode = "Edit" THEN state.buffer ELSE state.backup,
                    IF Len(history) = 0 THEN DefaultCmd
                    ELSE history[Len(history)],
                    Coords(RevSearchPromptLen, 0),
                    [i \in 1..Len(history) |-> Len(history) - i],
                    0)
      ]_vars

\* Search was entered from Navigate with a typed buffer as the backup
C12_Witness ==
    /\ key = "CtrlR"
    /\ nkeys = 3
    /\ state.mode = "Search"
    /\ state.regex = <<>>
    /\ state.backup = <<MkLine(<<"a">>)>>
    /\ state.matches = <<1, 0>>
    /\ state.preview = HistB
    /\ height = 3

\* C13: in every Search state the cursor is on the regex line: cursor.y = 0
\* and rp <= cursor.x <= rp + graphemes(regex), rp being the length of the
\* reverse-search prompt, also when the preview has several Lines.
C13_SearchCursorOnRegex ==
    (state.mode = "Search" /\ status # "panicked") =>
        /\ state.cursor.y = 0
        /\ RevSearchPromptLen <= state.cursor.x
        /\ state.cursor.x <= RevSearchPromptLen + Len(state.regex)

\* the Search cursor is on the regex
OnRegex ==
    /\ RevSearchPromptLen <= state.cursor.x
    /\ state.cursor.x <= RevSearchPromptLen + Len(state.regex)

\* the Search state after c was inserted into the regex at the cursor
Typed(c) ==
    LET idx == state.cursor.x - RevSearchPromptLen
        regex == SubSeq(state.regex, 1, idx) \o <<c>>
                 \o SubSeq(state.regex, idx + 1, Len(state.regex))
        matches == MatchesOf(history, regex)
    IN  SearchState(regex, state.backup,
                    IF matches = <<>> THEN DefaultCmd
                    ELSE history[matches[1] + 1],
                    [state.cursor EXCEPT !.x = @ + 1], matches, 0)

\* a printable char in Search, the regex having room for it or not
TypingInSearch(has_room) ==
    (state.mode = "Search" /\ key' = "Char" /\ OnRegex) =>
        /\ IF has_room THEN \E c \in SearchChars : state' = Typed(c)
           ELSE state' = state
        /\ history' = history

EditCursorValid ==
    /\ state.mode = "Edit"
    /\ state.cursor.y < Len(state.buffer)
    /\ state.cursor.x <= count_graphemes(state.buffer[state.cursor.y + 1])

\* the contents of all Lines of cmd, concatenated
Concatenation(cmd) == Flatten([i \in 1..Len(cmd) |-> cmd[i].content])

\* the buffer with Line y + 1 appended to Line y and removed (y counted
\* from 1)
Merged(buffer, y) ==
    [i \in 1..(Len(buffer) - 1) |->
        IF i < y THEN buffer[i]
        ELSE IF i = y
        THEN [buffer[y] EXCEPT !.content = @ \o buffer[y + 1].content]
        ELSE buffer[i + 1]]

\* C15: in Edit mode with cursor (0, y), y > 0, Backspace removes Line y,
\* appends its content to Line y - 1 and moves the cursor to (old grapheme
\* count of Line y - 1, y - 1); the number of Lines drops by one and the
\* concatenation of all Line contents is unchanged.
C15_BackspaceMerge ==
    [][(key' = "Backspace" /\ EditCursorValid
        /\ state.cursor.x = 0 /\ state.cursor.y > 0) =>
          /\ state' = EditState(
                 Merged(state.buffer, state.cursor.y),
                 Coords(count_graphemes(state.buffer[state.cursor.y]),
                        state.cursor.y - 1))
          /\ Len(state'.buffer) = Len(state.buffer) - 1
          /\ Concatenation(state'.buffer) = Concatenation(state.buffer)
      ]_vars

\* the empty second Line of ["a", ""] was merged into the first
C15_Witness ==
    /\ key = "Backspace"
    /\ nkeys = 3
    /\ history = <<>>
    /\ state = EditState(<<MkLine(<<"a">>)>>, Coords(1, 0))
    /\ height = 2

\* C16: in Edit mode with a valid cursor (x, y), x > 0, Backspace removes
\* exactly the grapheme at column x - 1 of Line y, leaves every other Line
\* and the number of Lines unchanged, and moves the cursor to (x - 1, y).
C16_BackspaceInLine ==
    [][(key' = "Backspace" /\ EditCursorValid /\ state.cursor.x > 0) =>
          state' = EditState(
              [state.buffer EXCEPT ![state.cursor.y + 1].content =
                  SubSeq(@, 1, state.cursor.x - 1)
                  \o SubSeq(@, state.cursor.x + 1, Len(@))],
              Coords(state.cursor.x - 1, state.cursor.y))
      ]_vars

\* C17: in Edit mode with cursor (x, y) where x is the grapheme count of
\* Line y, Delete appends Line y + 1 to Line y and removes it when there is
\* a next Line and is a NOP otherwise; at any other valid cursor it removes
\* exactly the grapheme at column x; the cursor is unchanged.
C17_DeleteAtLineEnd ==
    [][(key' = "Delete" /\ EditCursorValid) =>
          LET x == state.cursor.x
              y == state.cursor.y
          IN  IF x = count_graphemes(state.buffer[y + 1])
              THEN IF y + 1 < Len(state.buffer)
                   THEN state' = EditState(Merged(state.buffer, y + 1),
                                           state.cursor)
                   ELSE state' = state
              ELSE state' = EditState(
                       [state.buffer EXCEPT ![y + 1].content =
                           SubSeq(@, 1, x) \o SubSeq(@, x + 2, Len(@))],
                       state.cursor)
      ]_vars

\* C18: in Edit mode with a valid cursor (x, y), Ctrl-O splits Line y at
\* column x: Line y keeps its first x graphemes, a new Start Line holding
\* the remaining graphemes is inserted at index y + 1, all other Lines keep
\* their content and order, and the cursor becomes (0, y + 1).
C18_SplitOnCtrlO ==
    [][(key' = "CtrlO" /\ EditCursorValid) =>
          LET x == state.cursor.x
              y == state.cursor.y
              line == state.buffer[y + 1]
          IN  /\ state'.mode = "Edit"
              /\ state'.cursor = Coords(0, y + 1)
              /\ Len(state'.buffer) = Len(state.buffer) + 1
              /\ state'.buffer[y + 1] =
                     [line EXCEPT !.content = SubSeq(@, 1, x)]
              /\ state'.buffer[y + 2] =
                     MkLine(SubSeq(line.content, x + 1, Len(line.content)))
              /\ \A i \in 1..Len(state.buffer) :
                     /\ i < y + 1 => state'.buffer[i] = state.buffer[i]
                     /\ i > y + 1 => state'.buffer[i + 1] = state.buffer[i]
      ]_vars

\* ["ab"] was split at column 1
C18_Witness ==
    /\ key = "CtrlO"
    /\ nkeys = 4
    /\ history = <<>>
    /\ state = EditState(<<MkLine(<<"a">>), MkLine(<<"b">>)>>, Coords(0, 1))

\* the distinct Cmds of hist
Distinct(hist) == {hist[i] : i \in 1..Len(hist)}

\* the index of the most recent occurrence of cmd in hist
LastOccurrence(hist, cmd) ==
    CHOOSE i \in 1..Len(hist) :
        hist[i] = cmd /\ \A j \in (i + 1)..Len(hist) : hist[j] # cmd

\* out holds every Cmd of the set cmds exactly once, in the order of their
\* most recent occurrences in hist, oldest first
OnceInLastOrder(out, cmds, hist) ==
    /\ Len(out) = Cardinality(cmds)
    /\ {out[i] : i \in 1..Len(out)} = cmds
    /\ \A i, j \in 1..Len(out) :
          i < j => LastOccurrence(hist, out[i]) < LastOccurrence(hist, out[j])

\* C19 as amended: for every history with at most UPPER_LIMIT distinct
\* Cmds, trimmed() contains each distinct Cmd of the history exactly once,
\* and the Cmds appear in the order of their last (most recent) occurrences
\* in the history, oldest first.
C19_Dedup ==
    (fn.op = "trimmed" /\ Cardinality(Distinct(history)) <= fn.limit) =>
        OnceInLastOrder(fn.out, Distinct(history), history)

\* C19 as stated: the same for every history
C19_Original ==
    fn.op = "trimmed" => OnceInLastOrder(fn.out, Distinct(history), history)

\* a Cmd added twice with another one in between is kept once, last
C19_Witness ==
    /\ fn.op = "trimmed"
    /\ fn.limit = UPPER_LIMIT
    /\ history = <<HistB, <<MkLine(<<"a">>)>>, HistB>>
    /\ fn.out = <<<<MkLine(<<"a">>)>>, HistB>>

\* the limit most recently added distinct Cmds of hist
MostRecent(hist, limit) ==
    {cmd \in Distinct(hist) :
        Cardinality({e \in Distinct(hist) :
            LastOccurrence(hist, e) > LastOccurrence(hist, cmd)}) < limit}

\* C20: for a history with d distinct Cmds, trimmed() holds exactly
\* min(d, UPPER_LIMIT) Cmds, and when d > UPPER_LIMIT they are the
\* UPPER_LIMIT most recently added distinct Cmds, in chronological order.
C20_Cap ==
    fn.op = "trimmed" =>
        /\ Len(fn.out) = Min(Cardinality(Distinct(history)), fn.limit)
        /\ Cardinality(Distinct(history)) > fn.limit =>
              OnceInLastOrder(fn.out, MostRecent(history, fn.limit), history)

\* three distinct Cmds under a cap of two: the two newest are kept
C20_Witness ==
    /\ fn.op = "trimmed"
    /\ fn.limit = 2
    /\ history = <<<<MkLine(<<"a">>)>>, HistB, <<MkLine(<<"b">>)>>>>
    /\ fn.out = <<HistB, <<MkLine(<<"b">>)>>>>

\* C21: after any sequence of submissions the History held by the editor
\* contains at most UPPER_LIMIT Cmds (the cap of the run standing for it).
C21_HistoryBounded ==
    Len(history) <= fn.limit

\* C22: for a pattern that compiles, reverse_search returns exactly the
\* indices of the history Cmds whose source code matches the pattern, each
\* once, in strictly decreasing index order; for a pattern that does not
\* compile it returns the empty sequence.
C22_ReverseSearch ==
    fn.op = "searched" =>
        IF RegexCompiles(fn.regex)
        THEN /\ {fn.out[i] : i \in 1..Len(fn.out)} =
                    {i \in 0..(Len(history) - 1) :
                        is_match(fn.regex, to_source_code(history[i + 1]))}
             /\ \A i, j \in 1..Len(fn.out) : i < j => fn.out[i] > fn.out[j]
        ELSE fn.out = <<>>

\* "a" is searched in a history whose second Cmd does not hold it
C22_Witness ==
    /\ fn.op = "searched"
    /\ fn.regex = <<"a">>
    /\ history = <<<<MkLine(<<"a">>)>>, <<MkLine(<<"b">>)>>, HistB>>
    /\ fn.out = <<2, 0>>

\* C23: after every successful submission the history file holds, oldest
\* first, exactly trimmed() of the editor's history, and its last entry is
\* the Cmd just submitted.
C23_FileAfterSubmission ==
    [][SuccessfulSubmission =>
          /\ file' = to_json(trimmed(history'))
          /\ Len(file') > 0
          /\ file'[Len(file')] = [j \in 1..Len(Shown) |-> Shown[j].content]
      ]_vars

\* the older Cmd of the history was submitted again: the file holds it once,
\* last
C23_Witness ==
    /\ key = "Enter"
    /\ status = "running"
    /\ Len(evals) = 1
    /\ history = <<HistA, HistB, HistA>>
    /\ file = <<<<<<"b">>, <<"a">>>>, <<<<"a", "b">>>>>>

\* C24: while the loop runs raw mode is enabled exactly while the editor
\* blocks on a key-event read, and whenever the evaluator runs or the goodbye
\* message is written raw mode is disabled.
C24_RawModeWhileReading ==
    /\ status = "running" => (raw_mode <=> pc = "read")
    /\ \A i \in 1..Len(ran) : ~ran[i].raw_mode

\* the evaluator ran in the iteration that just ended
C24_Witness ==
    /\ key = "Enter"
    /\ status = "running"
    /\ pc = "idle"
    /\ Len(evals) = 1
    /\ ran = <<[what |-> "evaluator", raw_mode |-> FALSE]>>
    /\ ~raw_mode

\* C25: on every path by which the event loop stops (process exit on
\* Ctrl-D, or start() returning an error) raw mode is disabled at that point.
C25_RawModeOffAtEnd ==
    status \in {"exited", "error"} => ~raw_mode

\* an Enter whose evaluator call returned an error
FailedEvaluation ==
    key' = "Enter" /\ Len(evals') = Len(evals) + 1 /\ status' # "running"

\* C26: when the evaluator returns an error, start() returns that error: no
\* repaint follows, no further key event is read, and the height is not
\* reset to 1.
C26_EvaluatorError ==
    [][/\ FailedEvaluation =>
            /\ status' = "error"
            /\ pc' = "done"
            /\ paint' = paint
            /\ height' = height
       /\ status # "error"]_vars

\* the evaluator failed on a Cmd of two Lines: the height stays 2 and the
\* last repaint is the one before the Enter
C26_Witness ==
    /\ key = "Enter"
    /\ status = "error"
    /\ Len(evals) = 1
    /\ nkeys = 3
    /\ height = 2
    /\ paint.at = 2
    /\ pc = "done"

\* C27: Ctrl-D ends the run from every mode: the goodbye message is written,
\* no repaint follows, no later key event is dispatched, and neither the
\* history nor the history file is modified; Ctrl-G never stops the event
\* loop.
C27_CtrlDEnds ==
    [][/\ key' = "CtrlD" =>
            /\ status' = "exited"
            /\ pc' = "done"
            /\ ran' = <<[what |-> "goodbye", raw_mode |-> FALSE]>>
            /\ paint' = paint
            /\ UNCHANGED <<history, file, evals>>
       /\ status # "exited"
       /\ key' = "CtrlG" => status' = "running" /\ pc' = "idle"]_vars

\* Ctrl-D was pressed in Search mode
C27_Witness ==
    /\ key = "CtrlD"
    /\ status = "exited"
    /\ state.mode = "Search"
    /\ state.regex = <<"a">>
    /\ ran = <<[what |-> "goodbye", raw_mode |-> FALSE]>>
    /\ paint.at = 2
    /\ nkeys = 3

\* the rows of a logical Line of n graphemes: a Start row with the first
\* min(n, w - p) graphemes, then 1 + ceil(max(0, n - (w - p)) / w) - 1
\* Overflow (Continue) rows of up to w graphemes
RowsOfLine(line, w, p) ==
    LET n == Len(line.content)
        first == Min(n, w - p)
        more == (Max(0, n - (w - p)) + w - 1) \div w
    IN  [r \in 1..(1 + more) |->
            IF r = 1
            THEN [content |-> SubSeq(line.content, 1, first), kind |-> "Start"]
            ELSE [content |-> SubSeq(line.content, first + (r - 2) * w + 1,
                                     Min(n, first + (r - 1) * w)),
                  kind |-> "Continue"]]

\* the rows of all logical Lines of cmd, in order
RowsOfCmd(cmd, w, p) ==
    Flatten([i \in 1..Len(cmd) |-> RowsOfLine(cmd[i], w, p)])

\* the last of rows holds as many graphemes as its row can show
LastRowFull(rows, w, p) ==
    LET last == rows[Len(rows)]
    IN  Len(last.content) = IF last.kind = "Start" THEN w - p ELSE w

\* C28 as amended: for every compressed Cmd and W >= P + 1, uncompress
\* emits, per logical Line in order, one empty Start row if the Line is
\* empty, and otherwise a Start row with the first min(n, W - P) graphemes
\* followed by Overflow rows of up to W graphemes while graphemes remain,
\* and after the rows of the last Line one empty Overflow row when the last
\* of them is full (W - P graphemes in a Start row, W in an Overflow row).
C28_RowStructure ==
    fn.op = "uncompressed" =>
        LET rows == RowsOfCmd(fn.cmd, fn.w, fn.p)
        IN  fn.out = IF LastRowFull(rows, fn.w, fn.p)
                     THEN Append(rows, [content |-> <<>>, kind |-> "Continue"])
                     ELSE rows

\* C28 as stated: the rows are those of the logical Lines alone, so that
\* every Overflow row is non-empty and a Line of n > 0 graphemes yields
\* exactly 1 + ceil(max(0, n - (W - P)) / W) rows
C28_Original ==
    fn.op = "uncompressed" => fn.out = RowsOfCmd(fn.cmd, fn.w, fn.p)

\* a Line of four graphemes with W = 3, P = 2: rows of 1 and 3 graphemes and
\* an empty row after the full one
C28_Witness ==
    /\ fn.op = "uncompressed"
    /\ fn.cmd = <<MkLine(<<"a", "b", "a", "b">>)>>
    /\ fn.w = 3
    /\ fn.p = 2
    /\ fn.out = <<[content |-> <<"a">>, kind |-> "Start"],
                  [content |-> <<"b", "a", "b">>, kind |-> "Continue"],
                  [content |-> <<>>, kind |-> "Continue"]>>

\* C29: when an edit in Search mode makes the regex uncompilable, the
\* keystroke raises no error, the editor stays in Search with matches empty
\* and preview equal to the default Cmd, and backup and history are
\* unchanged.
C29_RegexFailureSilent ==
    [][(/\ state.mode = "Search"
        /\ key' \in {"Char", "Backspace", "Delete"}
        /\ state'.regex # state.regex
        /\ ~RegexCompiles(state'.regex)) =>
          /\ status' = "running"
          /\ state'.mode = "Search"
          /\ state'.matches = <<>>
          /\ state'.preview = DefaultCmd
          /\ state'.backup = state.backup
          /\ history' = history
      ]_vars

\* "(" was typed after "a", which two Cmds of the history match
C29_Witness ==
    /\ key = "Char"
    /\ status = "running"
    /\ state.mode = "Search"
    /\ state.regex = <<"a", "(">>
    /\ state.matches = <<>>
    /\ state.preview = DefaultCmd
    /\ history = <<HistA, HistB>>

\* cmd has at least one Line and all its Lines are of kind Start
IsCompressed(cmd) ==
    /\ Len(cmd) >= 1
    /\ \A i \in 1..Len(cmd) : cmd[i].kind = "Start"

\* C30: after any sequence of key events, the Edit buffer, the Navigate and
\* Search preview and backup, and every Cmd in the history have at least one
\* Line and every one of their Lines has kind Start.
C30_CompressedForm ==
    /\ IF state.mode = "Edit" THEN IsCompressed(state.buffer)
       ELSE IsCompressed(state.preview) /\ IsCompressed(state.backup)
    /\ \A i \in 1..Len(history) : IsCompressed(history[i])

\* a buffer whose only Line was drawn as two rows is still one Start Line
C30_Witness ==
    /\ key = "Char"
    /\ status = "running"
    /\ state = EditState(<<MkLine(<<"a", "b", "a">>)>>, Coords(3, 0))
    /\ paint.content_height = 2

\* a key step whose repaint completed
Repainted == paint'.at = nkeys' /\ nkeys' = nkeys + 1

\* C31: a completed repaint issues max(0, content_height - h_old) scroll-ups,
\* h_old being the height before the key event was dispatched; for every key
\* but Enter that number is the growth of the height in the step, and a
\* repaint in which the height does not grow issues none
C31_ScrollAccounting ==
    [][Repainted
       => /\ paint'.scrolls = Max(0, paint'.content_height - height)
          /\ (key' # "Enter" => paint'.scrolls = height' - height)
          /\ (height' <= height => paint'.scrolls = 0)]_vars

\* Ctrl-O grew the input area by one row and the repaint scrolled once
C31_Witness ==
    /\ key = "CtrlO"
    /\ paint.at = nkeys
    /\ paint.scrolls = 1
    /\ height = 2
    /\ status = "running"

\* C32: after a repaint in Search mode the content height is the number of
\* uncompressed preview rows plus 1, and the reverse-search prompt and the
\* terminal cursor are on row origin.y + height - 1, a row of the terminal
C32_SearchPromptRow ==
    (state.mode = "Search" /\ status = "running" /\ paint.at = nkeys
     /\ nkeys > 0)
    => /\ paint.content_height
            = Len(uncompress(state.preview, EditorWidth, PromptLen)) + 1
       /\ paint.prompt_row = origin_y(height) + height - 1
       /\ paint.cursor_row = paint.prompt_row
       /\ paint.prompt_row < TermHeight

\* the number of rows Cmd::uncompress emits for the first n Lines of cmd: one
\* for an empty Line, those of Line::uncompress otherwise
RECURSIVE EmittedRows(_, _, _, _)
EmittedRows(cmd, n, w, p) ==
    IF n = 0 THEN 0
    ELSE (IF Len(cmd[n].content) = 0 THEN 1
          ELSE Len(LineUncompress(cmd[n], w, p)))
         + EmittedRows(cmd, n - 1, w, p)

\* C33: for every compressed Cmd, W >= P + 1 and valid cursor (cx, cy) the
\* visual row of the repaint is the index of a row uncompress(cmd, W, P)
\* produced from Line cy (the closing empty row counts for the last Line),
\* the rows of Lines 0 .. cy - 1 being counted as uncompress emits them
C33_CursorRow ==
    fn.op = "uncursor" =>
        /\ ~fn.panicked
        /\ EmittedRows(fn.cmd, fn.cursor.y, fn.w, fn.p) <= fn.out.y
        /\ fn.out.y < IF fn.cursor.y + 1 = Len(fn.cmd)
                      THEN fn.rows
                      ELSE EmittedRows(fn.cmd, fn.cursor.y + 1, fn.w, fn.p)

\* the cursor of Edit or Navigate mode is on a Line of the Cmd on display,
\* at or before its end
ShownCursorValid ==
    /\ state.mode \in {"Edit", "Navigate"}
    /\ state.cursor.y < Len(Shown)
    /\ state.cursor.x <= count_graphemes(Shown[state.cursor.y + 1])

\* C34: Left and Right in Edit and Navigate mode at a valid cursor change
\* neither the Cmd on display, nor the mode, nor the history; Left is a NOP
\* at (0, 0), wraps from column 0 to the end of the previous Line and
\* otherwise decrements x; Right is a NOP at end_of_cmd, wraps from the end
\* of a Line to column 0 of the next one and otherwise increments x
C34_LeftRight ==
    [][(key' \in {"Left", "Right"} /\ ShownCursorValid)
       => LET c == state.cursor
          IN  /\ Shown' = Shown
              /\ state'.mode = state.mode
              /\ history' = history
              /\ key' = "Left" =>
                   state'.cursor =
                     IF c = ORIGIN THEN c
                     ELSE IF c.x = 0
                     THEN Coords(count_graphemes(Shown[c.y]), c.y - 1)
                     ELSE Coords(c.x - 1, c.y)
              /\ key' = "Right" =>
                   state'.cursor =
                     IF c = end_of_cmd(Shown) THEN c
                     ELSE IF c.x = count_graphemes(Shown[c.y + 1])
                     THEN Coords(0, c.y + 1)
                     ELSE Coords(c.x + 1, c.y)]_vars

\* Left wrapped from the start of the second Line to the end of the first
C34_Witness ==
    /\ key = "Left"
    /\ state.mode = "Edit"
    /\ Len(state.buffer) = 2
    /\ count_graphemes(state.buffer[1]) = 1
    /\ state.cursor = Coords(1, 0)
    /\ status = "running"

\* C35: in Search mode Up sets current to current + 1 when
\* current < len(matches) - 1 and Down sets it to current - 1 when
\* current > 0, the preview becoming history[matches[current]]; otherwise,
\* in particular with no matches, the key is a NOP that raises no error;
\* neither key changes the regex, the backup, the matches or the cursor
C35_SearchUpDown ==
    [][(key' \in {"Up", "Down"} /\ state.mode = "Search")
       => LET moved ==
                  IF key' = "Up" /\ state.current < Len(state.matches) - 1
                  THEN state.current + 1
                  ELSE IF key' = "Down" /\ state.current > 0
                  THEN state.current - 1
                  ELSE state.current
          IN  /\ status' = "running"
              /\ state'.mode = "Search"
              /\ state'.regex = state.regex
              /\ state'.backup = state.backup
              /\ state'.matches = state.matches
              /\ state'.cursor = state.cursor
              /\ state'.current = moved
              /\ state'.preview =
                   IF moved = state.current THEN state.preview
                   ELSE history[state.matches[moved + 1] + 1]]_vars

\* C36: after any sequence of key events the height of the input area is at
\* most the terminal height, so the origin row term_height - height is not
\* negative
C36_HeightFitsTerminal ==
    /\ height <= TermHeight
    /\ TermHeight - height >= 0
    /\ status # "panicked" => origin_y(height) = TermHeight - height

\* the keys that edit the Cmd on display
MutatingKeys == {"Char", "CtrlO", "Backspace", "Delete"}

\* C37: in every reachable Navigate state hidx is an index of the history and
\* the preview equals history[hidx]; a mutating key pressed in Navigate mode
\* leaves Navigate mode, so the preview is never edited in place
C37_NavigateInvariant ==
    [][/\ state'.mode = "Navigate" =>
            /\ history' # <<>>
            /\ state'.hidx <= max_idx(history')
            /\ state'.preview = history'[state'.hidx + 1]
       /\ (state.mode = "Navigate" /\ key' \in MutatingKeys) =>
            state'.mode = "Edit"]_vars

\* Up, Up reached the older of two history entries
C37_Witness ==
    /\ state.mode = "Navigate"
    /\ key = "Up"
    /\ Len(history) = 2
    /\ state.hidx = 0
    /\ state.preview = history[1]
    /\ status = "running"

\* C38: a step changes the history only if its key is Enter on a Cmd whose
\* source is not empty, and such an Enter appends the Cmd on display as one
\* new last entry, the earlier entries staying as they were, in their order;
\* no other key step alters the history
C38_HistoryFrame ==
    [][/\ history' # history =>
            /\ key' = "Enter"
            /\ ~SourceIsEmpty(to_source_code(Shown))
       /\ (key' = "Enter" /\ ~SourceIsEmpty(to_source_code(Shown))) =>
            /\ Len(history') = Len(history) + 1
            /\ SubSeq(history', 1, Len(history)) = history
            /\ history'[Len(history) + 1] = Shown]_vars

\* a Cmd promoted from the preview of the newest entry was edited and
\* submitted: the two entries read at startup are unchanged
C38_Witness ==
    /\ key = "Enter"
    /\ Len(history) = 3
    /\ history[1] = HistA
    /\ history[2] = HistB
    /\ history[3] # HistB
    /\ Len(history[3]) = 2
    /\ status = "running"

\* an Enter step during which writing the history file failed
WriteFailed ==
    \E write \in WriteOutcomes \ {"ok"}, eval_ok \in BOOLEAN :
        Step("Enter", cmd_eval(Machine, write, eval_ok))

\* C39: on Enter with non-empty source the Cmd is appended to the history and
\* the buffer emptied whatever follows; the evaluator is invoked only after
\* the history file was written with the new entry, so a failed write means
\* no evaluator call, and a failed evaluation leaves the Cmd in the history
\* and in the file
C39_SubmissionOrder ==
    [][(key' = "Enter" /\ ~SourceIsEmpty(to_source_code(Shown)))
       => /\ history' = Append(history, Shown)
          /\ state'.mode = "Edit"
          /\ state'.buffer = DefaultCmd
          /\ WriteFailed => (evals' = evals /\ status' = "error")
          /\ evals' # evals =>
               /\ evals' = Append(evals, to_source_code(Shown))
               /\ file' = to_json(trimmed(history'))
               /\ file'[Len(file')] = [j \in 1..Len(Shown) |-> Shown[j].content]
          /\ evals' = evals => status' = "error"]_vars

\* the evaluator failed on the Cmd "a": it is the last entry of the history
\* and of the file, and the buffer is empty
C39_Witness ==
    /\ key = "Enter"
    /\ status = "error"
    /\ Len(evals) = 1
    /\ history # <<>>
    /\ history[Len(history)] = <<MkLine(<<"a">>)>>
    /\ file # <<>>
    /\ file[Len(file)] = <<<<"a">>>>
    /\ state = EditState(DefaultCmd, Coords(1, 0))

\* C40: in Edit mode with a valid cursor, Ctrl-O followed at once by
\* Backspace restores the buffer (Lines, contents and kinds) and the cursor,
\* and changes nothing else
C40_SplitMergeRoundTrip ==
    (status = "running" /\ EditCursorValid) =>
        LET split == cmd_insert_newline(Machine)
            merged == cmd_rm_grapheme_before_cursor(split, overflow_checks)
        IN  /\ split.status = "running"
            /\ Len(split.state.buffer) = Len(state.buffer) + 1
            /\ merged = Machine

\* the preview ["b", "a"] was promoted and split before its second Line by
\* Ctrl-O, and Backspace merged it back
C40_Witness ==
    /\ key = "Backspace"
    /\ nkeys = 4
    /\ height = 3
    /\ history # <<>>
    /\ state = EditState(HistB, Coords(0, 1))
    /\ status = "running"

=============================================================================
